---- MODULE Spec2Model ----
(***************************************************************************)
(* State root task of crates/engine/tree/src/tree/root.rs:                 *)
(* the coordinator loop StateRootTask::run, the ProofSequencer, the        *)
(* MultiProofManager with its pool workers, and the sparse trie task       *)
(* run_sparse_trie, connected by mpsc channels.                            *)
(***************************************************************************)
EXTENDS Integers, Sequences, FiniteSets, TLC

\* ------------------------------------------------------------------ bounds
\* StateUpdate and PrefetchProofs messages the environment sends in one run
MaxRequests == 2
\* largest reading of the logical clock
MaxClock == 1
\* largest value of std::thread::available_parallelism() that is drawn
MaxParallelism == 6
\* largest N of the sequencer harness (sequences 0..N-1)
MaxN == 3
\* add_proof calls of one sequencer harness run
MaxCalls == 4
\* requests handed to the manager in one manager harness run
MaxMgrRequests == 4
\* largest thread_pool_size given to MultiProofManager::new on its own
MaxPoolSize == 4

\* ------------------------------------------------------------ data model
\* proof targets (hashed account, or hashed account + slot)
Targets == {"A", "B"}

None == <<>>
Some(x) == <<x>>

\* EvmState: accounts with their touched flag
EvmStates ==
    { {[addr |-> "A", touched |-> FALSE], [addr |-> "B", touched |-> TRUE]},
      {[addr |-> "A", touched |-> TRUE], [addr |-> "B", touched |-> TRUE]} }

\* targets of the PrefetchProofs messages that are sent
PrefetchTargetSets == { {"A"} }

\* HashedPostState::default(): no account, no storage
EmptyHashedState == <<>>

\* HashedPostState of one transaction: the hashed addresses it writes.  The
\* value is kept as the list of the deltas merged into it, oldest first;
\* id names the delta (its sequence number).
evm_state_to_hashed_post_state(update) ==
    { a.addr : a \in { x \in update : x.touched } }

HashedStateOf(id, update) ==
    LET hashed == evm_state_to_hashed_post_state(update)
    IN  IF hashed = {} THEN EmptyHashedState
        ELSE << [id |-> id, touched |-> hashed] >>

\* all targets written by a hashed state
TouchedOf(state) == UNION { state[i].touched : i \in 1..Len(state) }

\* HashedPostState::multi_proof_targets_difference
multi_proof_targets_difference(state, fetched) == TouchedOf(state) \ fetched

\* MultiProofTargets::retain_difference
retain_difference(targets, fetched) == targets \ fetched

\* MultiProofTargets::extend_ref
extend_ref(fetched, targets) == fetched \cup targets

\* SparseTrieUpdate { state, multiproof }; seqs lists the sequence numbers
\* of the updates merged into it, in merge order
SparseTrieUpdate(seq, state, multiproof) ==
    [seqs |-> <<seq>>, state |-> state, multiproof |-> multiproof]

\* SparseTrieUpdate::is_empty, looking at the multiproof alone
is_empty_multiproof_only(u) == u.multiproof = {}

\* SparseTrieUpdate::is_empty
is_empty(u) == u.state = EmptyHashedState /\ u.multiproof = {}

\* SparseTrieUpdate::extend
extend(acc, other) ==
    [seqs |-> acc.seqs \o other.seqs,
     state |-> acc.state \o other.state,
     multiproof |-> acc.multiproof \cup other.multiproof]

\* --------------------------------------------------------- ProofSequencer
ProofSequencerNew ==
    [next_sequence |-> 0, next_to_deliver |-> 0, pending_proofs |-> <<>>]

\* BTreeMap::insert, keeping the entry a key already has
MapInsert_keep_first(m, k, v) ==
    IF k \in DOMAIN m THEN m
    ELSE [x \in (DOMAIN m) \cup {k} |-> IF x = k THEN v ELSE m[x]]

\* BTreeMap::insert
MapInsert(m, k, v) ==
    [x \in (DOMAIN m) \cup {k} |-> IF x = k THEN v ELSE m[x]]

\* BTreeMap::remove of a set of keys
MapRemove(m, ks) == [x \in (DOMAIN m) \ ks |-> m[x]]

\* the while-let loop of add_proof: first sequence from current_sequence on
\* that is not buffered
RECURSIVE CollectEnd(_, _)
CollectEnd(pending, current_sequence) ==
    IF current_sequence \in DOMAIN pending
    THEN CollectEnd(pending, current_sequence + 1)
    ELSE current_sequence

\* ProofSequencer::add_proof, returning each proof as it arrives
add_proof_unordered(ps, sequence, update) ==
    [ps |-> [ps EXCEPT !.next_to_deliver =
                           IF sequence >= @ THEN sequence + 1 ELSE @],
     ret |-> <<update>>]

\* ProofSequencer::add_proof, stopping after the first ready proof
add_proof_single(ps, sequence, update) ==
    LET inserted == IF sequence >= ps.next_to_deliver
                    THEN MapInsert(ps.pending_proofs, sequence, update)
                    ELSE ps.pending_proofs
    IN  IF ps.next_to_deliver \notin DOMAIN inserted
        THEN [ps |-> [ps EXCEPT !.pending_proofs = inserted], ret |-> <<>>]
        ELSE [ps |-> [ps EXCEPT !.pending_proofs =
                                    MapRemove(inserted, {ps.next_to_deliver}),
                                !.next_to_deliver = @ + 1],
              ret |-> << inserted[ps.next_to_deliver] >>]

\* ProofSequencer::add_proof, leaving the delivered proofs in the buffer
add_proof_keep(ps, sequence, update) ==
    LET inserted == IF sequence >= ps.next_to_deliver
                    THEN MapInsert(ps.pending_proofs, sequence, update)
                    ELSE ps.pending_proofs
    IN  IF ps.next_to_deliver \notin DOMAIN inserted
        THEN [ps |-> [ps EXCEPT !.pending_proofs = inserted], ret |-> <<>>]
        ELSE LET end == CollectEnd(inserted, ps.next_to_deliver)
             IN  [ps |-> [ps EXCEPT !.pending_proofs = inserted,
                                    !.next_to_deliver = end],
                  ret |-> [i \in 1..(end - ps.next_to_deliver) |->
                              inserted[ps.next_to_deliver + i - 1]]]

\* ProofSequencer::add_proof, buffering whatever sequence it is given
add_proof_insert_always(ps, sequence, update) ==
    LET inserted == MapInsert(ps.pending_proofs, sequence, update)
    IN  IF ps.next_to_deliver \notin DOMAIN inserted
        THEN [ps |-> [ps EXCEPT !.pending_proofs = inserted], ret |-> <<>>]
        ELSE LET end == CollectEnd(inserted, ps.next_to_deliver)
             IN  [ps |-> [ps EXCEPT
                        !.pending_proofs =
                            MapRemove(inserted, ps.next_to_deliver..(end - 1)),
                        !.next_to_deliver = end],
                  ret |-> [i \in 1..(end - ps.next_to_deliver) |->
                              inserted[ps.next_to_deliver + i - 1]]]

\* ProofSequencer::add_proof, delivering from the first buffered sequence
\* instead of next_to_deliver
add_proof_skip_gap(ps, sequence, update) ==
    LET inserted == IF sequence >= ps.next_to_deliver
                    THEN MapInsert(ps.pending_proofs, sequence, update)
                    ELSE ps.pending_proofs
    IN  IF DOMAIN inserted = {}
        THEN [ps |-> [ps EXCEPT !.pending_proofs = inserted], ret |-> <<>>]
        ELSE LET first == CHOOSE k \in DOMAIN inserted :
                              \A x \in DOMAIN inserted : k <= x
                 end == CollectEnd(inserted, first)
             IN  [ps |-> [ps EXCEPT
                        !.pending_proofs = MapRemove(inserted, first..(end - 1)),
                        !.next_to_deliver = end],
                  ret |-> [i \in 1..(end - first) |-> inserted[first + i - 1]]]

\* ProofSequencer::add_proof: the new sequencer and the returned list
add_proof(ps, sequence, update) ==
    LET inserted == IF sequence >= ps.next_to_deliver
                    THEN MapInsert(ps.pending_proofs, sequence, update)
                    ELSE ps.pending_proofs
    IN  IF ps.next_to_deliver \notin DOMAIN inserted
        THEN [ps |-> [ps EXCEPT !.pending_proofs = inserted], ret |-> <<>>]
        ELSE LET end == CollectEnd(inserted, ps.next_to_deliver)
                 consecutive_proofs ==
                     [i \in 1..(end - ps.next_to_deliver) |->
                         inserted[ps.next_to_deliver + i - 1]]
             IN  [ps |-> [ps EXCEPT
                        !.pending_proofs =
                            MapRemove(inserted, ps.next_to_deliver..(end - 1)),
                        !.next_to_deliver = @ + Len(consecutive_proofs)],
                  ret |-> consecutive_proofs]

\* ProofSequencer::has_pending, true while a produced sequence is undelivered
has_pending_undelivered(ps) == ps.next_to_deliver < ps.next_sequence

\* ProofSequencer::has_pending
has_pending(ps) == DOMAIN ps.pending_proofs # {}

\* on_proof: feeds the sequencer and merges what became ready; combined is
\* None when nothing is ready or the merged update is empty
RECURSIVE Reduce(_)
Reduce(updates) ==
    IF Len(updates) = 1 THEN updates[1]
    ELSE extend(Reduce(SubSeq(updates, 1, Len(updates) - 1)), updates[Len(updates)])

\* on_proof, handing the update on without the sequencer
on_proof_unsequenced(ps, sequence_number, update) ==
    [ps |-> [ps EXCEPT !.next_to_deliver =
                           IF sequence_number >= @ THEN sequence_number + 1
                           ELSE @],
     combined |-> IF is_empty(update) THEN None ELSE Some(update)]

\* on_proof without the filter on empty updates
on_proof_no_filter(ps, sequence_number, update) ==
    LET r == add_proof(ps, sequence_number, update)
    IN  [ps |-> r.ps,
         combined |-> IF r.ret = <<>> THEN None ELSE Some(Reduce(r.ret))]

on_proof(ps, sequence_number, update) ==
    LET r == add_proof(ps, sequence_number, update)
    IN  [ps |-> r.ps,
         combined |-> IF r.ret = <<>> THEN None
                      ELSE IF is_empty(Reduce(r.ret)) THEN None
                      ELSE Some(Reduce(r.ret))]

\* check_end_condition, not waiting for FinishedStateUpdates
check_end_condition_unfinished(proofs, updates, prefetches, finished, ps) ==
    (proofs >= updates + prefetches) /\ ~has_pending(ps)

\* check_end_condition
check_end_condition(proofs, updates, prefetches, finished, ps) ==
    (proofs >= updates + prefetches) /\ ~has_pending(ps) /\ finished

\* ------------------------------------------------------ thread pool size
\* usize::saturating_sub
saturating_sub(a, b) == IF a >= b THEN a - b ELSE 0

Max(a, b) == IF a >= b THEN a ELSE b

\* rayon_thread_pool_size without the floor of 3
rayon_thread_pool_size_no_floor(num) ==
    IF num = 0 THEN 3 ELSE saturating_sub(num, 2)

\* rayon_thread_pool_size; num = 0 stands for available_parallelism() = Err
rayon_thread_pool_size(num) ==
    IF num = 0 THEN 3 ELSE Max(saturating_sub(num, 2), 3)

\* has_enough_parallelism
has_enough_parallelism(num) == num # 0 /\ num >= 5

\* ------------------------------------------------------ MultiProofManager
\* debug_assert!(max_concurrent != 0) of MultiProofManager::new: it panics
\* only in a build with debug assertions
debug_assert_fails(thread_pool_size, debug_assertions) ==
    debug_assertions /\ saturating_sub(thread_pool_size, 2) = 0

\* MultiProofManager::new
MultiProofManagerNew(thread_pool_size) ==
    [max_concurrent |-> saturating_sub(thread_pool_size, 2),
     inflight |-> 0,
     pending |-> <<>>]

\* MultiProofInput
MultiProofInput(state, targets, seq) ==
    [hashed_state_update |-> state, proof_targets |-> targets,
     proof_sequence_number |-> seq]

\* StateRootMessage; every message has all fields, unused ones at default.
\* via names the Sender clone the message was sent on: "tx" for a plain
\* clone of the task's tx, "hook" for the one wrapped in the StateHookSender.
Message(type, seq, state, proof, evm, iterations) ==
    [type |-> type, sequence_number |-> seq, state |-> state, proof |-> proof,
     evm |-> evm, iterations |-> iterations, via |-> "tx"]

\* a message sent through the Sender inside the StateHookSender (Deref)
ViaHook(message) == [message EXCEPT !.via = "hook"]

PrefetchProofs(targets) == Message("PrefetchProofs", 0, <<>>, targets, {}, 0)
StateUpdate(evm) == Message("StateUpdate", 0, <<>>, {}, evm, 0)
FinishedStateUpdates == Message("FinishedStateUpdates", 0, <<>>, {}, {}, 0)
EmptyProof(seq, state) == Message("EmptyProof", seq, state, {}, {}, 0)
ProofCalculated(seq, state, proof) ==
    Message("ProofCalculated", seq, state, proof, {}, 0)
ProofCalculationError == Message("ProofCalculationError", 0, <<>>, {}, {}, 0)
RootCalculated(iterations) ==
    Message("RootCalculated", 0, <<>>, {}, {}, iterations)
RootCalculationError == Message("RootCalculationError", 0, <<>>, {}, {}, 0)

\* The manager acts on a context ctx = [mgr, workers, inbox, dispatched,
\* scheduled]: its own fields, the closures running on the pool, the task's
\* message channel, and the inputs it was handed and the inputs it spawned,
\* each in call order.

\* MultiProofManager::spawn_multiproof
spawn_multiproof(ctx, input) ==
    [ctx EXCEPT !.workers = @ \cup {input}, !.mgr.inflight = @ + 1,
                !.scheduled = Append(@, input)]

\* MultiProofManager::spawn_or_queue, sending requests without targets to
\* the pool like the others
spawn_or_queue_no_empty_path(ctx, input) ==
    LET handed == [ctx EXCEPT !.dispatched = Append(@, input)]
    IN  IF handed.mgr.inflight >= handed.mgr.max_concurrent
        THEN [handed EXCEPT !.mgr.pending = Append(@, input)]
        ELSE spawn_multiproof(handed, input)

\* MultiProofManager::spawn_or_queue, never queueing
spawn_or_queue_unbounded(ctx, input) ==
    LET handed == [ctx EXCEPT !.dispatched = Append(@, input)]
    IN  IF input.proof_targets = {}
        THEN [handed EXCEPT !.inbox =
                Append(@, EmptyProof(input.proof_sequence_number,
                                     input.hashed_state_update))]
        ELSE spawn_multiproof(handed, input)

\* MultiProofManager::spawn_or_queue, sending EmptyProof for every request
\* before it looks at the targets
spawn_or_queue_also_empty(ctx, input) ==
    LET handed == [ctx EXCEPT !.dispatched = Append(@, input),
                              !.inbox =
                Append(@, EmptyProof(input.proof_sequence_number,
                                     input.hashed_state_update))]
    IN  IF input.proof_targets = {}
        THEN handed
        ELSE IF handed.mgr.inflight >= handed.mgr.max_concurrent
        THEN [handed EXCEPT !.mgr.pending = Append(@, input)]
        ELSE spawn_multiproof(handed, input)

\* MultiProofManager::spawn_or_queue
spawn_or_queue(ctx, input) ==
    LET handed == [ctx EXCEPT !.dispatched = Append(@, input)]
    IN  IF input.proof_targets = {}
        THEN [handed EXCEPT !.inbox =
                Append(@, EmptyProof(input.proof_sequence_number,
                                     input.hashed_state_update))]
        ELSE IF handed.mgr.inflight >= handed.mgr.max_concurrent
        THEN [handed EXCEPT !.mgr.pending = Append(@, input)]
        ELSE spawn_multiproof(handed, input)

\* MultiProofManager::on_calculation_complete, freeing the slot without
\* looking at the queue
on_calculation_complete_no_spawn(ctx) ==
    [ctx EXCEPT !.mgr.inflight = saturating_sub(@, 1)]

\* MultiProofManager::on_calculation_complete, taking the newest queued input
on_calculation_complete_pop_back(ctx) ==
    LET freed == [ctx EXCEPT !.mgr.inflight = saturating_sub(@, 1)]
        n == Len(freed.mgr.pending)
    IN  IF n > 0
        THEN spawn_multiproof(
                [freed EXCEPT !.mgr.pending = SubSeq(@, 1, n - 1)],
                freed.mgr.pending[n])
        ELSE freed

\* MultiProofManager::on_calculation_complete
on_calculation_complete(ctx) ==
    LET freed == [ctx EXCEPT !.mgr.inflight = saturating_sub(@, 1)]
    IN  IF freed.mgr.pending # <<>>
        THEN spawn_multiproof([freed EXCEPT !.mgr.pending = Tail(@)],
                              Head(freed.mgr.pending))
        ELSE freed

\* calculate_multiproof: the proof covers exactly its targets
calculate_multiproof(proof_targets) == proof_targets

\* the level below which update_sparse_trie calculates the hashes
SPARSE_TRIE_INCREMENTAL_LEVEL == 2

\* no call of update_sparse_trie is followed step by step
UstIdle == [pc |-> "idle"]

\* ------------------------------------------------------------------ state
VARIABLES
    hook,                     \* StateHookSender: "live" or "dropped"
    requests_sent,            \* StateUpdate and PrefetchProofs sent so far
    inbox,                    \* the task's channel (tx, rx), oldest first
    coord,                    \* run: "running", "ok", "err" or "panicked"
    fetched_proof_targets,
    proof_sequencer,
    multiproof_manager,
    workers,                  \* multiproof closures computing on the pool
    sparse_trie_tx,           \* TRUE = Some(sender), FALSE = None
    prefetch_proofs_received,
    updates_received,
    proofs_processed,
    updates_finished,
    first_update_time,
    last_update_time,
    outcome,                  \* StateRootComputeOutcome of an Ok result
    update_chan,              \* channel sparse_trie_tx -> update_rx
    updater,                  \* run_sparse_trie: "running", "exiting", "done"
    num_iterations,
    trie,                     \* [revealed, applied] of the sparse trie
    batches,                  \* history: the updates of each turn of the updater
    sent_seqs,                \* history: sequence numbers sent on sparse_trie_tx
    received_deltas,          \* history: deltas of the StateUpdates handled
    history,                  \* history: events that happened in this run
    dispatched,               \* history: inputs handed to spawn_or_queue
    scheduled,                \* history: inputs handed to spawn_multiproof
    seq_fed,                  \* sequencer harness: sequences fed so far
    seq_out,                  \* sequencer harness: returned lists, concatenated
    par_fed,                  \* manager harness: available_parallelism() drawn
    ust                       \* update_sparse_trie harness: the call's state

vars == << hook, requests_sent, inbox, coord,
           fetched_proof_targets, proof_sequencer, multiproof_manager, workers,
           sparse_trie_tx, prefetch_proofs_received, updates_received,
           proofs_processed, updates_finished, first_update_time,
           last_update_time, outcome, update_chan, updater,
           num_iterations, trie, batches, sent_seqs, received_deltas,
           history, dispatched, scheduled, seq_fed, seq_out, par_fed,
           ust >>

env_vars == << hook, requests_sent >>
time_vars == << first_update_time, last_update_time, outcome >>
updater_vars == << update_chan, updater, num_iterations, trie, batches >>
harness_vars == << seq_fed, seq_out, par_fed, ust >>
request_history == << dispatched, scheduled >>
counter_vars == << prefetch_proofs_received, updates_received, proofs_processed,
                   updates_finished >>

\* StateRootTask::new followed by spawn, around a given manager
InitTaskWith(manager) ==
    /\ multiproof_manager = manager
    /\ hook = "live"
    /\ requests_sent = 0
    /\ inbox = <<>>
    /\ coord = "running"
    /\ fetched_proof_targets = {}
    /\ workers = {}
    /\ sparse_trie_tx = TRUE
    /\ prefetch_proofs_received = 0
    /\ updates_received = 0
    /\ proofs_processed = 0
    /\ updates_finished = FALSE
    /\ first_update_time = None
    /\ last_update_time = None
    /\ outcome = None
    /\ update_chan = <<>>
    /\ updater = "running"
    /\ num_iterations = 0
    /\ trie = [revealed |-> {}, applied |-> <<>>]
    /\ batches = <<>>
    /\ sent_seqs = <<>>
    /\ received_deltas = <<>>
    /\ history = {}
    /\ dispatched = <<>>
    /\ scheduled = <<>>

\* StateRootTask::new followed by spawn, for available_parallelism() = num
InitTask(num) ==
    InitTaskWith(MultiProofManagerNew(rayon_thread_pool_size(num)))

Init ==
    /\ \E num \in 0..MaxParallelism : InitTask(num)
    /\ proof_sequencer = ProofSequencerNew
    /\ seq_fed = <<>>
    /\ seq_out = <<>>
    /\ par_fed = None
    /\ ust = UstIdle

\* the receiver of the task's channel lives as long as run does
RxAlive == coord = "running"

\* ------------------------------------------------------------ environment
\* the closure returned by state_hook, called by the executor
ExecutorStateUpdate(evm) ==
    /\ RxAlive
    /\ hook = "live"
    /\ requests_sent < MaxRequests
    /\ requests_sent' = requests_sent + 1
    /\ inbox' = Append(inbox, ViaHook(StateUpdate(evm)))
    /\ UNCHANGED << hook, coord, fetched_proof_targets,
                    proof_sequencer, multiproof_manager, workers, sparse_trie_tx,
                    counter_vars, time_vars, updater_vars, sent_seqs,
                    received_deltas, history, harness_vars, request_history >>

\* a StateUpdate sent through state_root_message_sender
SenderStateUpdate(evm) ==
    /\ RxAlive
    /\ requests_sent < MaxRequests
    /\ requests_sent' = requests_sent + 1
    /\ inbox' = Append(inbox, StateUpdate(evm))
    /\ UNCHANGED << hook, coord, fetched_proof_targets,
                    proof_sequencer, multiproof_manager, workers, sparse_trie_tx,
                    counter_vars, time_vars, updater_vars, sent_seqs,
                    received_deltas, history, harness_vars, request_history >>

\* a PrefetchProofs sent through state_root_message_sender
SenderPrefetchProofs(targets) ==
    /\ RxAlive
    /\ requests_sent < MaxRequests
    /\ requests_sent' = requests_sent + 1
    /\ inbox' = Append(inbox, PrefetchProofs(targets))
    /\ UNCHANGED << hook, coord, fetched_proof_targets,
                    proof_sequencer, multiproof_manager, workers, sparse_trie_tx,
                    counter_vars, time_vars, updater_vars, sent_seqs,
                    received_deltas, history, harness_vars, request_history >>

\* Drop for StateHookSender, sending nothing
DropStateHookSender_silent ==
    /\ hook = "live"
    /\ hook' = "dropped"
    /\ UNCHANGED << inbox, requests_sent, coord, fetched_proof_targets,
                    proof_sequencer, multiproof_manager, workers, sparse_trie_tx,
                    counter_vars, time_vars, updater_vars, sent_seqs,
                    received_deltas, history, harness_vars, request_history >>

\* Drop for StateHookSender
DropStateHookSender ==
    /\ hook = "live"
    /\ hook' = "dropped"
    /\ inbox' = IF RxAlive THEN Append(inbox, ViaHook(FinishedStateUpdates))
                ELSE inbox
    /\ UNCHANGED << requests_sent, coord, fetched_proof_targets,
                    proof_sequencer, multiproof_manager, workers, sparse_trie_tx,
                    counter_vars, time_vars, updater_vars, sent_seqs,
                    received_deltas, history, harness_vars, request_history >>

\* ------------------------------------------------------------ coordinator
\* ProofSequencer::next_sequence, advancing the counter by two
next_sequence_skip(ps) == [ps EXCEPT !.next_sequence = @ + 2]

\* ProofSequencer::next_sequence: the sequencer with the counter advanced
next_sequence(ps) == [ps EXCEPT !.next_sequence = @ + 1]

\* the part of the task that the request handlers change, after the message
\* at the head of the channel was received
Task ==
    [fetched_proof_targets |-> fetched_proof_targets,
     proof_sequencer |-> proof_sequencer,
     ctx |-> [mgr |-> multiproof_manager, workers |-> workers,
              inbox |-> Tail(inbox), dispatched |-> dispatched,
              scheduled |-> scheduled]]

\* StateRootTask::on_prefetch_proof, requesting the targets as they came
on_prefetch_proof_all_targets(task, targets) ==
    [fetched_proof_targets |-> extend_ref(task.fetched_proof_targets, targets),
     proof_sequencer |-> next_sequence(task.proof_sequencer),
     ctx |-> spawn_or_queue(task.ctx,
                MultiProofInput(EmptyHashedState, targets,
                                task.proof_sequencer.next_sequence))]

\* StateRootTask::on_prefetch_proof
on_prefetch_proof(task, targets) ==
    LET proof_targets == retain_difference(targets, task.fetched_proof_targets)
    IN  [fetched_proof_targets |->
            extend_ref(task.fetched_proof_targets, proof_targets),
         proof_sequencer |-> next_sequence(task.proof_sequencer),
         ctx |-> spawn_or_queue(task.ctx,
                    MultiProofInput(EmptyHashedState, proof_targets,
                                    task.proof_sequencer.next_sequence))]

\* StateRootTask::on_state_update, requesting every target the update writes
on_state_update_all_targets(task, update, proof_sequence_number) ==
    LET hashed_state_update == HashedStateOf(proof_sequence_number, update)
        proof_targets == TouchedOf(hashed_state_update)
    IN  [fetched_proof_targets |->
            extend_ref(task.fetched_proof_targets, proof_targets),
         proof_sequencer |-> task.proof_sequencer,
         ctx |-> spawn_or_queue(task.ctx,
                    MultiProofInput(hashed_state_update, proof_targets,
                                    proof_sequence_number))]

\* StateRootTask::on_state_update
on_state_update(task, update, proof_sequence_number) ==
    LET hashed_state_update == HashedStateOf(proof_sequence_number, update)
        proof_targets == multi_proof_targets_difference(
                            hashed_state_update, task.fetched_proof_targets)
    IN  [fetched_proof_targets |->
            extend_ref(task.fetched_proof_targets, proof_targets),
         proof_sequencer |-> task.proof_sequencer,
         ctx |-> spawn_or_queue(task.ctx,
                    MultiProofInput(hashed_state_update, proof_targets,
                                    proof_sequence_number))]

SetTask(task) ==
    /\ fetched_proof_targets' = task.fetched_proof_targets
    /\ proof_sequencer' = task.proof_sequencer
    /\ multiproof_manager' = task.ctx.mgr
    /\ workers' = task.ctx.workers
    /\ inbox' = task.ctx.inbox
    /\ dispatched' = task.ctx.dispatched
    /\ scheduled' = task.ctx.scheduled

Receives(type) == RxAlive /\ inbox # <<>> /\ Head(inbox).type = type

\* run, PrefetchProofs arm
CoordPrefetchProofs ==
    /\ Receives("PrefetchProofs")
    /\ prefetch_proofs_received' = prefetch_proofs_received + 1
    /\ SetTask(on_prefetch_proof(Task, Head(inbox).proof))
    /\ history' = IF updates_finished THEN history \cup {"late_prefetch"}
                  ELSE history
    /\ UNCHANGED << env_vars, coord, sparse_trie_tx, updates_received,
                    proofs_processed, updates_finished, time_vars, updater_vars,
                    sent_seqs, received_deltas, harness_vars >>

\* The clock (Instant::now) is read by run alone and never goes back; its
\* latest reading is the one kept in last_update_time.
now == IF last_update_time = None THEN 0 ELSE last_update_time[1]

\* run, StateUpdate arm; the clock is read for first_update_time (when this
\* is the first update) and again for last_update_time
CoordStateUpdate ==
    /\ Receives("StateUpdate")
    /\ \E d1, d2 \in 0..1 :
          /\ now + d1 + d2 <= MaxClock
          /\ first_update_time' = IF updates_received = 0
                                  THEN Some(now + d1) ELSE first_update_time
          /\ last_update_time' = Some(now + d1 + d2)
    /\ updates_received' = updates_received + 1
    /\ LET seq == proof_sequencer.next_sequence
           task == [Task EXCEPT !.proof_sequencer = next_sequence(@)]
       IN  /\ SetTask(on_state_update(task, Head(inbox).evm, seq))
           /\ received_deltas' =
                 received_deltas \o HashedStateOf(seq, Head(inbox).evm)
    /\ history' = IF updates_finished THEN history \cup {"late_update"}
                  ELSE history
    /\ UNCHANGED << env_vars, coord, sparse_trie_tx, prefetch_proofs_received,
                    proofs_processed, updates_finished, outcome, updater_vars,
                    sent_seqs, harness_vars >>

\* run, FinishedStateUpdates arm
CoordFinishedStateUpdates ==
    /\ Receives("FinishedStateUpdates")
    /\ inbox' = Tail(inbox)
    /\ updates_finished' = TRUE
    /\ sparse_trie_tx' =
          IF check_end_condition(proofs_processed, updates_received,
                                 prefetch_proofs_received, TRUE, proof_sequencer)
          THEN FALSE ELSE sparse_trie_tx
    /\ UNCHANGED << env_vars, coord, fetched_proof_targets, proof_sequencer,
                    multiproof_manager, workers, prefetch_proofs_received,
                    updates_received, proofs_processed, time_vars, updater_vars,
                    sent_seqs, received_deltas, history,
                    harness_vars, request_history >>

\* the receiver update_rx lives as long as run_sparse_trie loops
UpdateRxAlive == updater = "running"

\* the common tail of the EmptyProof and ProofCalculated arms: on_proof, the
\* send of the combined update (a panic when sparse_trie_tx is None), then
\* check_end_condition
ProofArm(sequence_number, update, rest) ==
    LET r == on_proof(proof_sequencer, sequence_number, update)
    IN  /\ proofs_processed' = proofs_processed + 1
        /\ proof_sequencer' = r.ps
        /\ IF r.combined # None /\ ~sparse_trie_tx
           THEN /\ coord' = "panicked"
                /\ history' = history \cup {"tx_dropped_panic"}
                /\ inbox' = <<>>
                /\ UNCHANGED << sparse_trie_tx, update_chan, sent_seqs >>
           ELSE /\ update_chan' =
                     IF r.combined # None /\ UpdateRxAlive
                     THEN Append(update_chan, r.combined[1]) ELSE update_chan
                /\ sent_seqs' = IF r.combined # None
                                THEN sent_seqs \o r.combined[1].seqs
                                ELSE sent_seqs
                /\ sparse_trie_tx' =
                     IF check_end_condition(proofs_processed + 1,
                            updates_received, prefetch_proofs_received,
                            updates_finished, r.ps)
                     THEN FALSE ELSE sparse_trie_tx
                /\ inbox' = rest
                /\ UNCHANGED << coord, history >>

\* run, EmptyProof arm
CoordEmptyProof ==
    /\ Receives("EmptyProof")
    /\ ProofArm(Head(inbox).sequence_number,
                SparseTrieUpdate(Head(inbox).sequence_number,
                                 Head(inbox).state, {}),
                Tail(inbox))
    /\ UNCHANGED << env_vars, fetched_proof_targets, multiproof_manager,
                    workers, prefetch_proofs_received, updates_received,
                    updates_finished, time_vars, updater, num_iterations,
                    trie, batches, received_deltas, harness_vars,
                    request_history >>

\* run, ProofCalculated arm
CoordProofCalculated ==
    /\ Receives("ProofCalculated")
    /\ LET ctx == on_calculation_complete(Task.ctx)
       IN  /\ multiproof_manager' = ctx.mgr
           /\ workers' = ctx.workers
           /\ scheduled' = ctx.scheduled
           /\ ProofArm(Head(inbox).sequence_number,
                       SparseTrieUpdate(Head(inbox).sequence_number,
                                        Head(inbox).state, Head(inbox).proof),
                       ctx.inbox)
    /\ UNCHANGED << env_vars, fetched_proof_targets, prefetch_proofs_received,
                    updates_received, updates_finished, time_vars, updater,
                    num_iterations, trie, batches, received_deltas,
                    harness_vars, dispatched >>

\* run, RootCalculated arm: the two elapsed() calls read the clock one after
\* the other; both expect() calls panic on None
CoordRootCalculated ==
    /\ Receives("RootCalculated")
    /\ inbox' = <<>>
    /\ IF first_update_time = None \/ last_update_time = None
       THEN /\ coord' = "panicked"
            /\ history' = history \cup {"update_time_panic"}
            /\ UNCHANGED outcome
       ELSE /\ coord' = "ok"
            /\ \E d1, d2 \in 0..1 :
                  /\ now + d1 + d2 <= MaxClock
                  /\ outcome' = Some(
                        [total_time |-> (now + d1) - first_update_time[1],
                         time_from_last_update |->
                             (now + d1 + d2) - last_update_time[1],
                         iterations |-> Head(inbox).iterations])
            /\ UNCHANGED history
    /\ UNCHANGED << env_vars, fetched_proof_targets, proof_sequencer,
                    multiproof_manager, workers, sparse_trie_tx, counter_vars,
                    first_update_time, last_update_time, updater_vars,
                    sent_seqs, received_deltas, harness_vars, request_history >>

\* run, ProofCalculationError arm
CoordProofCalculationError ==
    /\ Receives("ProofCalculationError")
    /\ inbox' = <<>>
    /\ coord' = "err"
    /\ UNCHANGED << env_vars, fetched_proof_targets, proof_sequencer,
                    multiproof_manager, workers, sparse_trie_tx, counter_vars,
                    time_vars, updater_vars, sent_seqs, received_deltas,
                    history, harness_vars, request_history >>

\* run, RootCalculationError arm
CoordRootCalculationError ==
    /\ Receives("RootCalculationError")
    /\ inbox' = <<>>
    /\ coord' = "err"
    /\ UNCHANGED << env_vars, fetched_proof_targets, proof_sequencer,
                    multiproof_manager, workers, sparse_trie_tx, counter_vars,
                    time_vars, updater_vars, sent_seqs, received_deltas,
                    history, harness_vars, request_history >>

\* The holders of a Sender of the task's channel that the task itself
\* created, as far as they are known to live: the hook and the workers only.
Senders_hook_and_workers ==
    (IF hook = "live" THEN {"hook"} ELSE {})
    \cup (IF workers # {} THEN {"worker"} ELSE {})

\* The holders of a Sender of the task's channel that are known to live:
\* the task (field tx, as long as run owns self), the StateHookSender, the
\* closure of spawn_sparse_trie, and every MultiProofInput, queued or on the
\* pool.  The clones given out by state_root_message_sender may be dropped
\* at any time and are not counted.
Senders ==
    (IF coord = "running" THEN {"task"} ELSE {})
    \cup (IF hook = "live" THEN {"hook"} ELSE {})
    \cup (IF updater # "done" THEN {"sparse_trie"} ELSE {})
    \cup (IF workers # {} THEN {"worker"} ELSE {})
    \cup (IF coord = "running" /\ multiproof_manager.pending # <<>>
          THEN {"pending"} ELSE {})

\* run, the Err arm of self.rx.recv(): the channel is empty and no Sender
\* of it is left
RecvDisconnected == RxAlive /\ inbox = <<>> /\ Senders = {}

\* ---------------------------------------------------------- proof workers
\* the closure of spawn_multiproof, calling on_calculation_complete itself
\* after it sent its result
WorkerProofCalculated_completes(w) ==
    /\ w \in workers
    /\ LET ctx == on_calculation_complete(
                    [mgr |-> multiproof_manager, workers |-> workers \ {w},
                     inbox |-> inbox, dispatched |-> dispatched,
                     scheduled |-> scheduled])
       IN  /\ multiproof_manager' = ctx.mgr
           /\ workers' = ctx.workers
           /\ scheduled' = ctx.scheduled
    /\ inbox' = IF RxAlive
                THEN Append(inbox,
                        ProofCalculated(w.proof_sequence_number,
                                        w.hashed_state_update,
                                        calculate_multiproof(w.proof_targets)))
                ELSE inbox
    /\ UNCHANGED << env_vars, coord, fetched_proof_targets, proof_sequencer,
                    sparse_trie_tx, counter_vars, time_vars, updater_vars,
                    sent_seqs, received_deltas, history, harness_vars,
                    dispatched >>

\* the closure of spawn_multiproof, calculate_multiproof returning Ok
WorkerProofCalculated(w) ==
    /\ w \in workers
    /\ workers' = workers \ {w}
    /\ inbox' = IF RxAlive
                THEN Append(inbox,
                        ProofCalculated(w.proof_sequence_number,
                                        w.hashed_state_update,
                                        calculate_multiproof(w.proof_targets)))
                ELSE inbox
    /\ UNCHANGED << env_vars, coord, fetched_proof_targets, proof_sequencer,
                    multiproof_manager, sparse_trie_tx, counter_vars, time_vars,
                    updater_vars, sent_seqs, received_deltas, history,
                    harness_vars, request_history >>

\* the closure of spawn_multiproof, calculate_multiproof returning Err
WorkerProofError(w) ==
    /\ w \in workers
    /\ workers' = workers \ {w}
    /\ inbox' = IF RxAlive THEN Append(inbox, ProofCalculationError) ELSE inbox
    /\ history' = IF RxAlive THEN history \cup {"worker_failed"} ELSE history
    /\ UNCHANGED << env_vars, coord, fetched_proof_targets, proof_sequencer,
                    multiproof_manager, sparse_trie_tx, counter_vars, time_vars,
                    updater_vars, sent_seqs, received_deltas,
                    harness_vars, request_history >>

\* ------------------------------------------------------- sparse trie task
\* SparseStateTrie::reveal_multiproof
reveal_multiproof(t, multiproof) ==
    [t EXCEPT !.revealed = @ \cup multiproof]

\* storage and account updates of a state: Blind (ok = FALSE) when a path
\* the state writes is not revealed
update_leaves(t, state) ==
    IF TouchedOf(state) \subseteq t.revealed
    THEN [ok |-> TRUE, trie |-> [t EXCEPT !.applied = @ \o state]]
    ELSE [ok |-> FALSE, trie |-> t]

\* update_sparse_trie
update_sparse_trie(t, update) ==
    update_leaves(reveal_multiproof(t, update.multiproof), update.state)

\* the sparse trie task has seen every sender of update_rx dropped
UpdateTxDropped == ~sparse_trie_tx \/ coord # "running"

\* run_sparse_trie, one turn of the loop taking a single update: recv
\* without the try_recv loop
UpdaterBatch_single ==
    /\ updater = "running"
    /\ update_chan # <<>>
    /\ update_chan' = Tail(update_chan)
    /\ num_iterations' = num_iterations + 1
    /\ batches' = Append(batches, << Head(update_chan).seqs >>)
    /\ \E fails \in BOOLEAN :
          LET result == update_sparse_trie(trie, Head(update_chan))
          IN  IF result.ok /\ ~fails
              THEN /\ trie' = result.trie
                   /\ UNCHANGED << updater, inbox, history >>
              ELSE /\ trie' = IF fails THEN trie ELSE result.trie
                   /\ updater' = "done"
                   /\ inbox' = IF RxAlive
                               THEN Append(inbox, RootCalculationError)
                               ELSE inbox
                   /\ history' = history \cup
                        (IF result.ok THEN {"updater_failed"}
                         ELSE {"updater_failed", "blind"})
    /\ UNCHANGED << env_vars, coord, fetched_proof_targets, proof_sequencer,
                    multiproof_manager, workers, sparse_trie_tx, counter_vars,
                    time_vars, sent_seqs, received_deltas,
                    harness_vars, request_history >>

\* run_sparse_trie, one turn of the loop: recv, then try_recv until the
\* channel is empty, then update_sparse_trie; an Err ends the task with
\* RootCalculationError (fails: an error of the trie's node provider)
UpdaterBatch ==
    /\ updater = "running"
    /\ update_chan # <<>>
    /\ update_chan' = <<>>
    /\ num_iterations' = num_iterations + 1
    /\ batches' = Append(batches, [i \in 1..Len(update_chan) |->
                                      update_chan[i].seqs])
    /\ \E fails \in BOOLEAN :
          LET result == update_sparse_trie(trie, Reduce(update_chan))
          IN  IF result.ok /\ ~fails
              THEN /\ trie' = result.trie
                   /\ UNCHANGED << updater, inbox, history >>
              ELSE /\ trie' = IF fails THEN trie ELSE result.trie
                   /\ updater' = "done"
                   /\ inbox' = IF RxAlive
                               THEN Append(inbox, RootCalculationError)
                               ELSE inbox
                   /\ history' = history \cup
                        (IF result.ok THEN {"updater_failed"}
                         ELSE {"updater_failed", "blind"})
    /\ UNCHANGED << env_vars, coord, fetched_proof_targets, proof_sequencer,
                    multiproof_manager, workers, sparse_trie_tx, counter_vars,
                    time_vars, sent_seqs, received_deltas,
                    harness_vars, request_history >>

\* run_sparse_trie leaving the loop as soon as no update is waiting,
\* whether or not the sender of the updates lives
UpdaterFinalRoot_eager ==
    /\ updater = "running"
    /\ ust.pc \in {"idle", "returned_ok"}
    /\ update_chan = <<>>
    /\ \E fails \in BOOLEAN :
          IF fails
          THEN /\ updater' = "done"
               /\ inbox' = IF RxAlive
                           THEN Append(inbox, RootCalculationError) ELSE inbox
               /\ history' = history \cup {"updater_failed"}
          ELSE /\ updater' = "exiting"
               /\ inbox' = IF RxAlive
                           THEN Append(inbox, RootCalculated(num_iterations))
                           ELSE inbox
               /\ history' = history \cup {"root_sent"}
    /\ UNCHANGED << env_vars, coord, fetched_proof_targets, proof_sequencer,
                    multiproof_manager, workers, sparse_trie_tx, counter_vars,
                    time_vars, update_chan, num_iterations, trie, batches,
                    sent_seqs, received_deltas, harness_vars,
                    request_history >>

\* run_sparse_trie after the loop: root_with_updates, then RootCalculated
\* is sent before the function returns and its locals are dropped
UpdaterFinalRoot ==
    /\ updater = "running"
    /\ ust.pc \in {"idle", "returned_ok"}
    /\ update_chan = <<>>
    /\ UpdateTxDropped
    /\ \E fails \in BOOLEAN :
          IF fails
          THEN /\ updater' = "done"
               /\ inbox' = IF RxAlive
                           THEN Append(inbox, RootCalculationError) ELSE inbox
               /\ history' = history \cup {"updater_failed"}
          ELSE /\ updater' = "exiting"
               /\ inbox' = IF RxAlive
                           THEN Append(inbox, RootCalculated(num_iterations))
                           ELSE inbox
               /\ history' = history \cup {"root_sent"}
    /\ UNCHANGED << env_vars, coord, fetched_proof_targets, proof_sequencer,
                    multiproof_manager, workers, sparse_trie_tx, counter_vars,
                    time_vars, update_chan, num_iterations, trie, batches,
                    sent_seqs, received_deltas, harness_vars,
                    request_history >>

\* run_sparse_trie returns Ok(()) and the task ends
UpdaterExit ==
    /\ updater = "exiting"
    /\ updater' = "done"
    /\ UNCHANGED << env_vars, inbox, coord, fetched_proof_targets,
                    proof_sequencer, multiproof_manager, workers,
                    sparse_trie_tx, counter_vars, time_vars, update_chan,
                    num_iterations, trie, batches, sent_seqs, received_deltas,
                    history, harness_vars, request_history >>

\* ---------------------------------------------------------- specification
Next ==
    \/ \E evm \in EvmStates : ExecutorStateUpdate(evm)
    \/ \E evm \in EvmStates : SenderStateUpdate(evm)
    \/ \E targets \in PrefetchTargetSets : SenderPrefetchProofs(targets)
    \/ DropStateHookSender
    \/ CoordPrefetchProofs
    \/ CoordStateUpdate
    \/ CoordFinishedStateUpdates
    \/ CoordEmptyProof
    \/ CoordProofCalculated
    \/ CoordRootCalculated
    \/ CoordProofCalculationError
    \/ CoordRootCalculationError
    \/ \E w \in workers : WorkerProofCalculated(w)
    \/ \E w \in workers : WorkerProofError(w)
    \/ UpdaterBatch
    \/ UpdaterFinalRoot
    \/ UpdaterExit

Spec == Init /\ [][Next]_vars

\* ------------------------------------------------ ProofSequencer in isolation
\* The sequencer as the unit tests drive it: next_sequence is set to N on a
\* new sequencer, then add_proof is called with sequences below N.
SeqInit ==
    /\ InitTask(0)
    /\ \E n \in 1..MaxN :
          proof_sequencer = [ProofSequencerNew EXCEPT !.next_sequence = n]
    /\ seq_fed = <<>>
    /\ seq_out = <<>>
    /\ par_fed = None
    /\ ust = UstIdle

\* one add_proof call; the multiproof tells two updates of a sequence apart
SeqAddProof(sequence, multiproof) ==
    /\ Len(seq_fed) < MaxCalls
    /\ LET update == SparseTrieUpdate(sequence, EmptyHashedState, multiproof)
           r == add_proof(proof_sequencer, sequence, update)
       IN  /\ proof_sequencer' = r.ps
           /\ seq_fed' = Append(seq_fed, update)
           /\ seq_out' = seq_out \o r.ret
           /\ UNCHANGED << par_fed, ust >>
    /\ UNCHANGED << env_vars, inbox, coord, fetched_proof_targets,
                    multiproof_manager, workers, sparse_trie_tx, counter_vars,
                    time_vars, updater_vars, sent_seqs, received_deltas,
                    history, request_history >>

SeqNext ==
    \E sequence \in 0..(proof_sequencer.next_sequence - 1) :
        \E multiproof \in {{"A"}, {"B"}} : SeqAddProof(sequence, multiproof)

SeqSpec == SeqInit /\ [][SeqNext]_vars


\* ------------------------------------------- MultiProofManager in isolation
\* The manager as the task drives it, without the rest of the task: requests
\* are handed to spawn_or_queue with consecutive sequence numbers, and each
\* result of a worker is followed by on_calculation_complete.

\* the manager of a task created for a drawn available_parallelism()
MgrInit ==
    /\ \E num \in 0..MaxParallelism :
          InitTask(num) /\ par_fed = Some(num)
    /\ ust = UstIdle
    /\ proof_sequencer = ProofSequencerNew
    /\ seq_fed = <<>>
    /\ seq_out = <<>>

\* MultiProofManager::new called with a drawn thread_pool_size, in a build
\* with or without debug assertions; no manager when it panics
NewInit ==
    /\ \E thread_pool_size \in 0..MaxPoolSize, debug_assertions \in BOOLEAN :
          InitTaskWith(IF debug_assert_fails(thread_pool_size, debug_assertions)
                       THEN [panic |-> "debug_assert"]
                       ELSE MultiProofManagerNew(thread_pool_size))
    /\ proof_sequencer = ProofSequencerNew
    /\ seq_fed = <<>>
    /\ seq_out = <<>>
    /\ par_fed = None
    /\ ust = UstIdle

\* the engine runs the task only with enough parallelism; otherwise the
\* caller computes the root synchronously and hands the task nothing
EngineRuns ==
    IF par_fed = None THEN TRUE ELSE has_enough_parallelism(par_fed[1])

\* MultiProofManager::new returned a manager
ManagerBuilt == "max_concurrent" \in DOMAIN multiproof_manager

ManagerCtx ==
    [mgr |-> multiproof_manager, workers |-> workers, inbox |-> inbox,
     dispatched |-> dispatched, scheduled |-> scheduled]

SetManagerCtx(ctx) ==
    /\ multiproof_manager' = ctx.mgr
    /\ workers' = ctx.workers
    /\ inbox' = ctx.inbox
    /\ dispatched' = ctx.dispatched
    /\ scheduled' = ctx.scheduled

\* one request reaches spawn_or_queue
MgrRequest(targets) ==
    /\ ManagerBuilt
    /\ EngineRuns
    /\ proof_sequencer.next_sequence < MaxMgrRequests
    /\ proof_sequencer' = next_sequence(proof_sequencer)
    /\ SetManagerCtx(spawn_or_queue(ManagerCtx,
            MultiProofInput(EmptyHashedState, targets,
                            proof_sequencer.next_sequence)))
    /\ UNCHANGED << env_vars, coord, fetched_proof_targets, sparse_trie_tx,
                    counter_vars, time_vars, updater_vars, sent_seqs,
                    received_deltas, history, harness_vars >>

\* a worker sends its result and the task calls on_calculation_complete
MgrWorkerDone(w) ==
    /\ w \in workers
    /\ SetManagerCtx(on_calculation_complete(
            [ManagerCtx EXCEPT !.workers = @ \ {w}]))
    /\ UNCHANGED << env_vars, coord, fetched_proof_targets, proof_sequencer,
                    sparse_trie_tx, counter_vars, time_vars, updater_vars,
                    sent_seqs, received_deltas, history, harness_vars >>

MgrNext ==
    \/ \E targets \in {{}, {"A"}} : MgrRequest(targets)
    \/ \E w \in workers : MgrWorkerDone(w)

MgrSpec == MgrInit /\ [][MgrNext]_vars

NewSpec == NewInit /\ [][MgrNext]_vars


\* ------------------------------------------- update_sparse_trie step by step
\* One call of update_sparse_trie on a batch.  state.storages and
\* state.accounts are the accounts whose storage, resp. account leaf, the
\* batch writes; storage_tries are the accounts whose storage trie is in the
\* sparse trie; log lists what was done, in order.

UstEvent(ev, addr) == [ev |-> ev, addr |-> addr]

UstInit ==
    /\ InitTask(0)
    /\ proof_sequencer = ProofSequencerNew
    /\ seq_fed = <<>>
    /\ seq_out = <<>>
    /\ par_fed = None
    /\ \E storages \in SUBSET Targets, accounts \in SUBSET Targets,
          multiproof \in SUBSET Targets, storage_tries \in SUBSET Targets :
          ust = [pc |-> "recv", storages |-> storages, accounts |-> accounts,
                 multiproof |-> multiproof, storage_tries |-> storage_tries,
                 running |-> {}, rx |-> <<>>, failed_tasks |-> {},
                 log |-> <<>>]

UstUnchanged ==
    UNCHANGED << env_vars, inbox, coord, fetched_proof_targets, proof_sequencer,
                 multiproof_manager, workers, sparse_trie_tx, counter_vars,
                 time_vars, updater_vars, sent_seqs, received_deltas, history,
                 request_history, seq_fed, seq_out, par_fed >>

\* run_sparse_trie receives the batch and calls update_sparse_trie
UstBatchReceived ==
    /\ updater = "running"
    /\ ust.pc = "recv"
    /\ ust' = [ust EXCEPT !.pc = "reveal"]
    /\ num_iterations' = num_iterations + 1
    /\ UNCHANGED << env_vars, inbox, coord, fetched_proof_targets,
                    proof_sequencer, multiproof_manager, workers,
                    sparse_trie_tx, counter_vars, time_vars, update_chan,
                    updater, trie, batches, sent_seqs, received_deltas,
                    history, request_history, seq_fed, seq_out, par_fed >>

\* trie.reveal_multiproof(multiproof)?
UstReveal ==
    /\ ust.pc = "reveal"
    /\ \E fails \in BOOLEAN :
          ust' = IF fails
                 THEN [ust EXCEPT !.pc = "failed"]
                 ELSE [ust EXCEPT !.pc = "storage",
                                  !.storage_tries = @ \cup ust.multiproof,
                                  !.log = Append(@, UstEvent("reveal", "-"))]
    /\ UstUnchanged

\* the iterator over state.storages yields the next account:
\* trie.take_storage_trie(&address) detaches its storage trie, if there is
\* one, and the account's task is handed to the pool
UstTakeStorageTrie(address) ==
    /\ ust.pc = "storage"
    /\ address \in ust.storages
    /\ ust' = [ust EXCEPT
                 !.storages = @ \ {address},
                 !.storage_tries = @ \ {address},
                 !.running = @ \cup
                    {[address |-> address,
                      storage_trie |-> address \in ust.storage_tries]},
                 !.log = Append(@, UstEvent("take", address))]
    /\ UstUnchanged

\* the task of one account on the pool: Blind without a storage trie, else
\* the slot updates (which may fail) and the storage root; the result is
\* sent on tx
UstStorageTask(task) ==
    /\ task \in ust.running
    /\ \E fails \in BOOLEAN :
          ust' = [ust EXCEPT
                    !.running = @ \ {task},
                    !.rx = Append(@, [address |-> task.address,
                                      ok |-> task.storage_trie /\ ~fails]),
                    !.failed_tasks =
                        IF task.storage_trie /\ ~fails THEN @
                        ELSE @ \cup {task.address},
                    !.log = Append(@, UstEvent("storage", task.address))]
    /\ UstUnchanged

\* for_each_init, taking the results as they are, without waiting for the
\* tasks still running
UstForEachDone_early ==
    /\ ust.pc = "storage"
    /\ ust' = [ust EXCEPT !.pc = "collect"]
    /\ UstUnchanged

\* for_each_init returns once the iterator is exhausted and every task has
\* completed; then drop(tx)
UstForEachDone ==
    /\ ust.pc = "storage"
    /\ ust.storages = {}
    /\ ust.running = {}
    /\ ust' = [ust EXCEPT !.pc = "collect"]
    /\ UstUnchanged

\* for result in rx, going on to the next result after an Err
UstCollectResult_skip_failed ==
    /\ ust.pc = "collect"
    /\ ust.rx # <<>>
    /\ ust' = IF Head(ust.rx).ok
              THEN [ust EXCEPT
                      !.rx = Tail(@),
                      !.storage_tries = @ \cup {Head(ust.rx).address},
                      !.log = Append(@, UstEvent("attach", Head(ust.rx).address))]
              ELSE [ust EXCEPT !.rx = Tail(@)]
    /\ UstUnchanged

\* for result in rx: result? and trie.insert_storage_trie
UstCollectResult ==
    /\ ust.pc = "collect"
    /\ ust.rx # <<>>
    /\ ust' = IF Head(ust.rx).ok
              THEN [ust EXCEPT
                      !.rx = Tail(@),
                      !.storage_tries = @ \cup {Head(ust.rx).address},
                      !.log = Append(@, UstEvent("attach", Head(ust.rx).address))]
              ELSE [ust EXCEPT !.pc = "failed"]
    /\ UstUnchanged

\* for (address, account) in state.accounts: trie.update_account(..)?
UstUpdateAccount(address) ==
    /\ ust.pc = "collect"
    /\ ust.rx = <<>>
    /\ ust.running = {}
    /\ address \in ust.accounts
    /\ \E fails \in BOOLEAN :
          ust' = IF fails
                 THEN [ust EXCEPT !.pc = "failed"]
                 ELSE [ust EXCEPT
                         !.accounts = @ \ {address},
                         !.log = Append(@, UstEvent("account", address))]
    /\ UstUnchanged

\* trie.calculate_below_level(SPARSE_TRIE_INCREMENTAL_LEVEL); Ok(elapsed)
UstCalculateBelowLevel ==
    /\ ust.pc = "collect"
    /\ ust.rx = <<>>
    /\ ust.running = {}
    /\ ust.accounts = {}
    /\ ust' = [ust EXCEPT
                 !.pc = "done",
                 !.log = Append(@, [ev |-> "hash", addr |-> "-",
                                    level |-> SPARSE_TRIE_INCREMENTAL_LEVEL])]
    /\ UstUnchanged

\* update_sparse_trie returned Ok: run_sparse_trie goes back to recv
UstReturnOk ==
    /\ ust.pc = "done"
    /\ ust' = [ust EXCEPT !.pc = "returned_ok"]
    /\ UstUnchanged

\* update_sparse_trie returned Err: run_sparse_trie returns it and the
\* closure of spawn_sparse_trie sends RootCalculationError
UstReturnErr ==
    /\ ust.pc = "failed"
    /\ ust' = [ust EXCEPT !.pc = "returned_err"]
    /\ updater' = "done"
    /\ inbox' = IF RxAlive THEN Append(inbox, RootCalculationError) ELSE inbox
    /\ history' = history \cup {"updater_failed"}
    /\ UNCHANGED << env_vars, coord, fetched_proof_targets, proof_sequencer,
                    multiproof_manager, workers, sparse_trie_tx, counter_vars,
                    time_vars, update_chan, num_iterations, trie, batches,
                    sent_seqs, received_deltas, request_history, seq_fed,
                    seq_out, par_fed >>

\* One turn of run_sparse_trie followed step by step, with the end of the
\* run around it: the hook is dropped, run closes sparse_trie_tx, and the
\* two tasks exchange the final messages.
UstNext ==
    \/ UstBatchReceived
    \/ UstReveal
    \/ \E address \in Targets : UstTakeStorageTrie(address)
    \/ \E task \in ust.running : UstStorageTask(task)
    \/ UstForEachDone
    \/ UstCollectResult
    \/ \E address \in Targets : UstUpdateAccount(address)
    \/ UstCalculateBelowLevel
    \/ UstReturnOk
    \/ UstReturnErr
    \/ DropStateHookSender
    \/ CoordFinishedStateUpdates
    \/ CoordRootCalculated
    \/ CoordRootCalculationError
    \/ UpdaterFinalRoot
    \/ UpdaterExit

UstSpec == UstInit /\ [][UstNext]_vars

\* ------------------------------------------------------------------ claims
Stopped == coord # "running"

\* the input kept to the protocol and nothing failed
NoLateInput == history \cap {"late_update", "late_prefetch"} = {}
NothingFailed == history \cap {"worker_failed", "updater_failed"} = {}

\* C1: the sequence numbers of the updates sent on sparse_trie_tx, in send
\* order and with merged updates expanded in merge order, strictly increase.
C1_SentInSequenceOrder ==
    \A i, j \in 1..Len(sent_seqs) : i < j => sent_seqs[i] < sent_seqs[j]

\* a merged update is in the channel: later sequences were buffered until
\* an earlier one arrived
C1_Witness ==
    \E i \in 1..Len(update_chan) :
        Len(update_chan[i].seqs) >= 2 /\ Len(sent_seqs) >= 2

\* C2: when run returns Ok and no StateUpdate came after
\* FinishedStateUpdates, the deltas the sparse trie applied are the deltas of
\* the StateUpdates received, each once and in arrival order.
C2_AppliedEqualsReceived ==
    (coord = "ok" /\ "late_update" \notin history)
        => trie.applied = received_deltas

C2_Witness ==
    coord = "ok" /\ "late_update" \notin history /\ Len(trie.applied) >= 2

\* the three conditions of the termination predicate
EndCondition ==
    /\ updates_finished
    /\ proofs_processed >= updates_received + prefetch_proofs_received
    /\ DOMAIN proof_sequencer.pending_proofs = {}

\* C3: a step takes sparse_trie_tx only into a state where the three
\* conditions hold, and a step handling FinishedStateUpdates, EmptyProof or
\* ProofCalculated into a state where they hold leaves it taken.
C3_ClosedExactlyWhen ==
    [][ /\ (sparse_trie_tx /\ ~sparse_trie_tx') => EndCondition'
        /\ ( /\ \/ CoordFinishedStateUpdates
                \/ CoordEmptyProof
                \/ CoordProofCalculated
             /\ EndCondition' )
           => ~sparse_trie_tx' ]_vars

C3_Witness ==
    ~sparse_trie_tx /\ coord = "running" /\ proofs_processed >= 2

\* C4: with protocol-conforming input and no failure, run ends only by
\* returning Ok.
C4_EndsWithOk ==
    (Stopped /\ NoLateInput /\ NothingFailed) => coord = "ok"

\* C5: when FinishedStateUpdates was the only input and the sparse trie task
\* did not fail, run ends by returning Ok.
C5_EmptyBlockOk ==
    (Stopped /\ requests_sent = 0 /\ NothingFailed) => coord = "ok"

\* C6: when a proof worker has sent ProofCalculationError to the running
\* task, run does not handle a RootCalculated and return Ok.  Runs with a
\* StateUpdate after FinishedStateUpdates are left out, which only narrows
\* the claim.
C6_NoRootAfterWorkerError ==
    ("worker_failed" \in history /\ "late_update" \notin history)
        => coord # "ok"

\* C7: when run returns Ok, proofs_processed equals
\* updates_received + prefetch_proofs_received.  Runs with a StateUpdate
\* after FinishedStateUpdates are left out, which only narrows the claim.
C7_AllProofsProcessed ==
    (coord = "ok" /\ "late_update" \notin history)
        => proofs_processed = updates_received + prefetch_proofs_received

\* C8: once run has returned its result, no multiproof worker computes and
\* the sparse trie task has ended.
C8_NoWorkerAfterResult ==
    coord \in {"ok", "err"} => (workers = {} /\ updater = "done")

\* C9: in every outcome total_time >= time_from_last_update.  Runs with
\* input after FinishedStateUpdates are left out, which only narrows the
\* claim.
C9_TotalTimeCoversLast ==
    (coord = "ok" /\ NoLateInput) => outcome[1].total_time >= outcome[1].time_from_last_update

\* the sequences fed to the sequencer harness
FedSequences == { seq_fed[i].seqs[1] : i \in 1..Len(seq_fed) }

\* every sequence 0..N-1 was fed, each once
FedEachOnce ==
    /\ FedSequences = 0..(proof_sequencer.next_sequence - 1)
    /\ Len(seq_fed) = proof_sequencer.next_sequence

\* the update that was fed for a sequence
FedUpdate(sequence) ==
    CHOOSE u \in { seq_fed[i] : i \in 1..Len(seq_fed) } : u.seqs[1] = sequence

\* C10: once add_proof was called once for each of 0..N-1, in any order,
\* the returned lists concatenate to update_0, ..., update_{N-1}.
C10_ConcatenationInOrder ==
    FedEachOnce =>
        seq_out = [i \in 1..proof_sequencer.next_sequence |-> FedUpdate(i - 1)]

C10_Witness ==
    FedEachOnce /\ Len(seq_fed) = 3 /\ seq_fed[1].seqs[1] = 2

\* the sequence fed by the add_proof call of a harness step
LastFed(fed) == fed[Len(fed)].seqs[1]

\* C11: once add_proof was called for every sequence 0..N-1, in any order
\* and with repeats, has_pending() is false.
C11_AllFedNothingPending ==
    FedSequences = 0..(proof_sequencer.next_sequence - 1)
        => ~has_pending(proof_sequencer)

C11_Witness ==
    /\ FedSequences = 0..(proof_sequencer.next_sequence - 1)
    /\ proof_sequencer.next_sequence = 3
    /\ Len(seq_fed) = 4
    /\ seq_fed[1].seqs[1] = 1

\* the fed sequences are 0..k-1 for some k: none lies above a missing one
FedIsPrefix ==
    \A s \in FedSequences : \A m \in 0..s : m \in FedSequences

\* C12 as stated: after add_proof was called for a strict subset of 0..N-1,
\* has_pending() is true.
C12_StrictSubsetPending ==
    ( /\ seq_fed # <<>>
      /\ FedSequences # 0..(proof_sequencer.next_sequence - 1) )
        => has_pending(proof_sequencer)

\* C12 amended: after add_proof was called for a strict subset of 0..N-1,
\* has_pending() is true exactly when some fed sequence lies above a
\* sequence that was not fed.
C12_PendingIffGap ==
    FedSequences # 0..(proof_sequencer.next_sequence - 1)
        => (has_pending(proof_sequencer) <=> ~FedIsPrefix)

C12_Witness ==
    /\ FedSequences = {0, 1}
    /\ proof_sequencer.next_sequence = 3
    /\ seq_fed[1].seqs[1] = 1
    /\ ~has_pending(proof_sequencer)

\* C13: an add_proof call with a sequence below next_to_deliver returns an
\* empty list and leaves next_to_deliver and the buffer as they were.
C13_LateProofIgnored ==
    [][ ( /\ seq_fed' # seq_fed
          /\ LastFed(seq_fed') < proof_sequencer.next_to_deliver )
        => (seq_out' = seq_out /\ proof_sequencer' = proof_sequencer) ]_vars

\* 0 was delivered, 2 is buffered, then 0 was fed again
C13_Witness ==
    /\ Len(seq_fed) = 3
    /\ seq_fed[1].seqs[1] = 0 /\ seq_fed[2].seqs[1] = 2 /\ seq_fed[3].seqs[1] = 0
    /\ seq_fed[3] # seq_fed[1]
    /\ has_pending(proof_sequencer)

\* C14: when the buffer has no entry for next_to_deliver after an add_proof
\* call recorded its sequence, the call returns an empty list, does not
\* advance next_to_deliver and keeps every buffered entry; a non-empty
\* buffer stays non-empty while next_to_deliver does not advance; feeding 0
\* then 2 returns [update_0], then [], with has_pending() true.
C14_GapHoldsBack ==
    [][ /\ seq_fed' # seq_fed =>
            LET ps == proof_sequencer
                recorded == IF LastFed(seq_fed') >= ps.next_to_deliver
                            THEN MapInsert(ps.pending_proofs, LastFed(seq_fed'),
                                           seq_fed'[Len(seq_fed')])
                            ELSE ps.pending_proofs
            IN  ps.next_to_deliver \notin DOMAIN recorded =>
                    /\ seq_out' = seq_out
                    /\ proof_sequencer'.next_to_deliver = ps.next_to_deliver
                    /\ proof_sequencer'.pending_proofs = recorded
        /\ ( /\ has_pending(proof_sequencer)
             /\ proof_sequencer'.next_to_deliver = proof_sequencer.next_to_deliver )
           => has_pending(proof_sequencer')
        /\ ( /\ Len(seq_fed') = 2
             /\ seq_fed'[1].seqs[1] = 0 /\ seq_fed'[2].seqs[1] = 2 )
           => (seq_out' = <<seq_fed'[1]>> /\ has_pending(proof_sequencer')) ]_vars

C14_Witness ==
    /\ Len(seq_fed) = 2
    /\ seq_fed[1].seqs[1] = 0 /\ seq_fed[2].seqs[1] = 2
    /\ seq_out = <<seq_fed[1]>>
    /\ has_pending(proof_sequencer)

\* the targets of all requests handed to the manager
DispatchedTargets(d) == UNION { d[i].proof_targets : i \in 1..Len(d) }

\* PrefetchProofs({A}), then a StateUpdate touching A and B, then
\* FinishedStateUpdates, and run returned Ok
PrefetchThenOverlap ==
    /\ coord = "ok"
    /\ NoLateInput
    /\ prefetch_proofs_received = 1
    /\ received_deltas = << [id |-> 1, touched |-> {"A", "B"}] >>

\* C15: no proof target is in the proof_targets of two requests handed to
\* the manager; fetched_proof_targets only grows and is the union of the
\* targets of the requests handed over so far; PrefetchProofs({A}) followed
\* by a StateUpdate touching A and B requests A, then B, and ends with
\* proofs_processed = 2.
C15_TargetsRequestedOnce ==
    [][ /\ \A i, j \in 1..Len(dispatched') :
              i # j => dispatched'[i].proof_targets
                           \cap dispatched'[j].proof_targets = {}
        /\ fetched_proof_targets \subseteq fetched_proof_targets'
        /\ fetched_proof_targets' = DispatchedTargets(dispatched')
        /\ PrefetchThenOverlap' =>
              /\ Len(dispatched') = 2
              /\ dispatched'[1].proof_targets = {"A"}
              /\ dispatched'[2].proof_targets = {"B"}
              /\ proofs_processed' = 2 ]_vars

C15_Witness ==
    /\ PrefetchThenOverlap
    /\ Len(dispatched) = 2
    /\ dispatched[2].proof_targets = {"B"}
    /\ proofs_processed = 2

\* C16: a request without proof targets makes spawn_or_queue send one
\* EmptyProof with the request's sequence number and state, schedule no
\* worker and queue nothing; handling an EmptyProof adds one to
\* proofs_processed.
C16_EmptyProofPath ==
    [][ /\ ( /\ Len(dispatched') = Len(dispatched) + 1
             /\ dispatched'[Len(dispatched')].proof_targets = {} )
           => LET input == dispatched'[Len(dispatched')]
              IN  /\ inbox' = Append(Tail(inbox),
                                EmptyProof(input.proof_sequence_number,
                                           input.hashed_state_update))
                  /\ workers' = workers
                  /\ scheduled' = scheduled
                  /\ multiproof_manager' = multiproof_manager
        /\ CoordEmptyProof => proofs_processed' = proofs_processed + 1 ]_vars

\* a StateUpdate whose targets were all fetched before went the EmptyProof
\* way and the run ended with Ok
C16_Witness ==
    /\ coord = "ok"
    /\ NoLateInput
    /\ \E i \in 1..Len(dispatched) :
          /\ dispatched[i].proof_targets = {}
          /\ dispatched[i].hashed_state_update # EmptyHashedState

\* workers that were scheduled and whose result run has not handled yet
Unhandled ==
    Cardinality(workers)
    + Cardinality({ i \in 1..Len(inbox) :
                      inbox[i].type \in {"ProofCalculated",
                                         "ProofCalculationError"} })

\* C17: inflight <= max_concurrent, and the workers scheduled whose result
\* was not handled yet are at most max_concurrent.
C17_BoundedConcurrency ==
    /\ multiproof_manager.inflight <= multiproof_manager.max_concurrent
    /\ Unhandled <= multiproof_manager.max_concurrent

\* a request waits in the queue while the pool is at its limit
C17_Witness ==
    /\ multiproof_manager.pending # <<>>
    /\ Cardinality(workers) = multiproof_manager.max_concurrent

\* the sequence numbers of a list of inputs
SeqNumbers(inputs) ==
    [i \in 1..Len(inputs) |-> inputs[i].proof_sequence_number]

\* C18: a request arriving while inflight >= max_concurrent is appended to
\* the pending queue; each on_calculation_complete schedules the head of
\* the queue and nothing else; the queue is in arrival order and no input
\* was scheduled that arrived after an input still queued.
C18_QueueIsFifo ==
    [][ LET mgr == multiproof_manager
        IN  /\ ( /\ Len(dispatched') = Len(dispatched) + 1
                 /\ dispatched'[Len(dispatched')].proof_targets # {}
                 /\ mgr.inflight >= mgr.max_concurrent )
               => /\ mgr'.pending =
                        Append(mgr.pending, dispatched'[Len(dispatched')])
                  /\ scheduled' = scheduled
            /\ (dispatched' = dispatched /\ mgr.pending # <<>>)
               => /\ scheduled' = Append(scheduled, Head(mgr.pending))
                  /\ mgr'.pending = Tail(mgr.pending)
            /\ (dispatched' = dispatched /\ mgr.pending = <<>>)
               => scheduled' = scheduled
            /\ \A i, j \in 1..Len(mgr'.pending) :
                  i < j => mgr'.pending[i].proof_sequence_number
                              < mgr'.pending[j].proof_sequence_number
            /\ \A i \in 1..Len(scheduled'), j \in 1..Len(mgr'.pending) :
                  scheduled'[i].proof_sequence_number
                      < mgr'.pending[j].proof_sequence_number
            /\ \A i, j \in 1..Len(scheduled') :
                  i < j => scheduled'[i].proof_sequence_number
                              < scheduled'[j].proof_sequence_number ]_vars

\* two requests were queued and both were scheduled later
C18_Witness ==
    /\ multiproof_manager.max_concurrent = 1
    /\ SeqNumbers(scheduled) = <<0, 1, 2>>
    /\ Len(dispatched) = 3
    /\ workers # {}

SpecPoolSize(p) ==
    IF p = 0 THEN 3
    ELSE IF (IF p >= 2 THEN p - 2 ELSE 0) >= 3 THEN p - 2 ELSE 3

\* C20: for every available parallelism p (0: unknown) the task's manager
\* has max_concurrent = max(p - 2, 3) - 2 with p - 2 saturating at 0, which
\* is at least 1; has_enough_parallelism holds exactly for known p >= 5;
\* the engine hands the task no request when it does not hold.
C20_PoolSizing ==
    par_fed # None =>
        LET p == par_fed[1]
        IN  /\ rayon_thread_pool_size(p) = SpecPoolSize(p)
            /\ rayon_thread_pool_size(p) >= 3
            /\ multiproof_manager.max_concurrent = SpecPoolSize(p) - 2
            /\ multiproof_manager.max_concurrent >= 1
            /\ has_enough_parallelism(p) <=> (p >= 5)
            /\ ~has_enough_parallelism(p) => dispatched = <<>>

C20_Witness ==
    /\ par_fed = Some(6)
    /\ multiproof_manager.max_concurrent = 2
    /\ Len(scheduled) = 2

\* FinishedStateUpdates messages in a channel
FinishedQueued(q) ==
    Cardinality({ i \in 1..Len(q) : q[i].type = "FinishedStateUpdates" })

\* the step that drops the StateHookSender
HookDropStep == hook = "live" /\ hook' = "dropped"

\* a StateUpdate sent through the StateHookSender
HookStateUpdate(m) == m.type = "StateUpdate" /\ m.via = "hook"

\* C21 as stated: dropping the StateHookSender enqueues exactly one
\* FinishedStateUpdates.
C21_DropEnqueuesFinished ==
    [][ HookDropStep =>
            FinishedQueued(inbox') = FinishedQueued(inbox) + 1 ]_vars

\* C21 amended: while run is running, dropping the StateHookSender appends
\* exactly one FinishedStateUpdates to the task's channel, and after run
\* has returned it enqueues nothing; no other step enqueues one; no
\* StateUpdate sent through the wrapper is behind it in the channel, and
\* none is left in the channel once run has received it.
C21_DropClosesHookStream ==
    [][ /\ (HookDropStep /\ RxAlive) =>
              /\ Len(inbox') = Len(inbox) + 1
              /\ SubSeq(inbox', 1, Len(inbox)) = inbox
              /\ inbox'[Len(inbox')].type = "FinishedStateUpdates"
        /\ (HookDropStep /\ ~RxAlive) => inbox' = inbox
        /\ ~HookDropStep => FinishedQueued(inbox') <= FinishedQueued(inbox)
        /\ \A i, j \in 1..Len(inbox') :
              (i < j /\ inbox'[i].type = "FinishedStateUpdates")
                  => ~HookStateUpdate(inbox'[j])
        /\ updates_finished' =>
              \A i \in 1..Len(inbox') : ~HookStateUpdate(inbox'[i]) ]_vars

\* a StateUpdate of the wrapper waits in the channel ahead of the
\* FinishedStateUpdates of its drop
C21_Witness ==
    \E i, j \in 1..Len(inbox) :
        /\ i < j
        /\ HookStateUpdate(inbox[i])
        /\ inbox[j].type = "FinishedStateUpdates"

\* C22: the k-th StateUpdate or PrefetchProofs handled (from 0) is handed
\* to the manager with proof_sequence_number = k; no number is skipped or
\* used twice.
C22_DenseSequenceNumbers ==
    /\ Len(dispatched) = updates_received + prefetch_proofs_received
    /\ proof_sequencer.next_sequence = Len(dispatched)
    /\ \A k \in 1..Len(dispatched) :
          dispatched[k].proof_sequence_number = k - 1

\* a StateUpdate got number 0 and a PrefetchProofs after it number 1
C22_Witness ==
    /\ Len(dispatched) = 2
    /\ dispatched[1].hashed_state_update # EmptyHashedState
    /\ dispatched[2].hashed_state_update = EmptyHashedState
    /\ prefetch_proofs_received = 1

\* the deltas in a list of deltas
Deltas(state) == { state[i] : i \in 1..Len(state) }

\* C23: the sparse trie task never finds a path blind: every target
\* written by a state it applies was revealed by the multiproof of the same
\* batch or of an earlier one.
C23_RevealedBeforeMutated ==
    /\ "blind" \notin history
    /\ TouchedOf(trie.applied) \subseteq trie.revealed

\* the state of an update that went the EmptyProof way was applied
C23_Witness ==
    \E i \in 1..Len(dispatched) :
        /\ dispatched[i].proof_targets = {}
        /\ dispatched[i].hashed_state_update # EmptyHashedState
        /\ Deltas(dispatched[i].hashed_state_update) \subseteq Deltas(trie.applied)

\* C24: run never reaches expect("tx not dropped") with sparse_trie_tx
\* taken.
C24_SendOnlyWhileOpen == "tx_dropped_panic" \notin history

\* C25: an update put on sparse_trie_tx has a state or a multiproof; when
\* every update that add_proof released in a step is empty (none released
\* included), nothing is sent; each EmptyProof or ProofCalculated handled
\* adds one to proofs_processed.
C25_NoEmptyUpdateSent ==
    [][ /\ Len(update_chan') = Len(update_chan) + 1 =>
              LET u == update_chan'[Len(update_chan')]
              IN  u.state # EmptyHashedState \/ u.multiproof # {}
        /\ (CoordEmptyProof \/ CoordProofCalculated) =>
              LET m == Head(inbox)
                  released == proof_sequencer.next_to_deliver
                                ..(proof_sequencer'.next_to_deliver - 1)
                  Empty(sq) ==
                      IF sq = m.sequence_number
                      THEN m.state = EmptyHashedState /\ m.proof = {}
                      ELSE /\ proof_sequencer.pending_proofs[sq].state
                                 = EmptyHashedState
                           /\ proof_sequencer.pending_proofs[sq].multiproof = {}
              IN  /\ proofs_processed' = proofs_processed + 1
                  /\ (\A sq \in released : Empty(sq)) =>
                        (sent_seqs' = sent_seqs /\ update_chan' = update_chan)
      ]_vars

\* a prefetch whose targets were all fetched before was handled alone:
\* counted, and nothing was sent for it
C25_Witness ==
    /\ Len(dispatched) = 2
    /\ dispatched[2].proof_targets = {}
    /\ dispatched[2].hashed_state_update = EmptyHashedState
    /\ proofs_processed = 2
    /\ sent_seqs = <<0>>

\* C26: after every add_proof call the buffer holds no key below
\* next_to_deliver; its keys are unique, the buffer being a map.
C26_BufferAboveDelivered ==
    \A k \in DOMAIN proof_sequencer.pending_proofs :
        k >= proof_sequencer.next_to_deliver

\* a delivered sequence was fed again while later ones are buffered
C26_Witness ==
    /\ Len(seq_fed) = 4
    /\ seq_fed[4].seqs[1] < proof_sequencer.next_to_deliver
    /\ seq_fed[4].seqs[1] = seq_fed[1].seqs[1]
    /\ Len(seq_out) = 1
    /\ has_pending(proof_sequencer)

\* the buffer after an add_proof call has recorded its update
Recorded(ps, update) ==
    IF update.seqs[1] >= ps.next_to_deliver
    THEN [x \in (DOMAIN ps.pending_proofs) \cup {update.seqs[1]} |->
            IF x = update.seqs[1] THEN update ELSE ps.pending_proofs[x]]
    ELSE ps.pending_proofs

\* C27: add_proof returns the buffered updates of next_to_deliver,
\* next_to_deliver + 1, ... up to the first missing sequence, advances
\* next_to_deliver by their number, removes them from the buffer, and leaves
\* no entry for the new next_to_deliver.
C27_LongestContiguousRun ==
    [][ seq_fed' # seq_fed =>
            LET ps == proof_sequencer
                rec == Recorded(ps, seq_fed'[Len(seq_fed')])
                n == Len(seq_out') - Len(seq_out)
                from == ps.next_to_deliver
            IN  /\ n >= 0
                /\ SubSeq(seq_out', 1, Len(seq_out)) = seq_out
                /\ \A i \in 1..n :
                      /\ (from + i - 1) \in DOMAIN rec
                      /\ seq_out'[Len(seq_out) + i] = rec[from + i - 1]
                /\ (from + n) \notin DOMAIN rec
                /\ proof_sequencer'.next_to_deliver = from + n
                /\ DOMAIN proof_sequencer'.pending_proofs
                      = (DOMAIN rec) \ (from..(from + n - 1))
                /\ \A k \in DOMAIN proof_sequencer'.pending_proofs :
                      proof_sequencer'.pending_proofs[k] = rec[k]
                /\ proof_sequencer'.next_to_deliver
                      \notin DOMAIN proof_sequencer'.pending_proofs ]_vars

\* 1 and 2 were buffered and came out together with 0
C27_Witness ==
    /\ Len(seq_fed) = 3
    /\ seq_fed[1].seqs[1] = 1 /\ seq_fed[2].seqs[1] = 2 /\ seq_fed[3].seqs[1] = 0
    /\ Len(seq_out) = 3

\* the last update fed for a sequence
LastFedFor(fed, sequence) ==
    fed[CHOOSE i \in 1..Len(fed) :
            /\ fed[i].seqs[1] = sequence
            /\ \A j \in (i + 1)..Len(fed) : fed[j].seqs[1] # sequence]

\* C28: add_proof for a sequence above next_to_deliver that is buffered
\* replaces the entry and returns nothing, the number of entries staying the
\* same; a buffered entry is the last update fed for its sequence, an update
\* comes out as last fed, and no sequence comes out twice.
C28_DuplicateOverwrites ==
    [][ seq_fed' # seq_fed =>
            LET ps == proof_sequencer
                u == seq_fed'[Len(seq_fed')]
            IN  /\ ( /\ u.seqs[1] > ps.next_to_deliver
                     /\ u.seqs[1] \in DOMAIN ps.pending_proofs )
                   => /\ DOMAIN proof_sequencer'.pending_proofs
                            = DOMAIN ps.pending_proofs
                      /\ proof_sequencer'.pending_proofs[u.seqs[1]] = u
                      /\ seq_out' = seq_out
                /\ \A k \in DOMAIN proof_sequencer'.pending_proofs :
                      proof_sequencer'.pending_proofs[k] = LastFedFor(seq_fed', k)
                /\ \A i \in (Len(seq_out) + 1)..Len(seq_out') :
                      seq_out'[i] = LastFedFor(seq_fed', seq_out'[i].seqs[1])
                /\ \A i, j \in 1..Len(seq_out') :
                      i # j => seq_out'[i].seqs[1] # seq_out'[j].seqs[1] ]_vars

\* 2 was fed with one proof, then with another, and the second came out
C28_Witness ==
    /\ Len(seq_fed) = 4
    /\ seq_fed[1].seqs[1] = 2 /\ seq_fed[2].seqs[1] = 2
    /\ seq_fed[1] # seq_fed[2]
    /\ Len(seq_out) = 3
    /\ seq_out[3] = seq_fed[2]

\* C29: handling ProofCalculated runs on_calculation_complete once: with a
\* queued input its head is scheduled and inflight stays, without one
\* inflight drops by one; only the handling of StateUpdate, PrefetchProofs
\* and ProofCalculated changes inflight, the queue or what was scheduled.
C29_QueueDrivenByCoordinator ==
    [][ LET mgr == multiproof_manager
        IN  /\ CoordProofCalculated =>
                  IF mgr.pending # <<>>
                  THEN /\ multiproof_manager'.pending = Tail(mgr.pending)
                       /\ multiproof_manager'.inflight = mgr.inflight
                       /\ scheduled' = Append(scheduled, Head(mgr.pending))
                       /\ workers' = workers \cup {Head(mgr.pending)}
                  ELSE /\ multiproof_manager'.pending = <<>>
                       /\ multiproof_manager'.inflight = mgr.inflight - 1
                       /\ scheduled' = scheduled
                       /\ workers' = workers
            /\ ~(CoordProofCalculated \/ CoordStateUpdate
                    \/ CoordPrefetchProofs) =>
                  /\ multiproof_manager' = mgr
                  /\ scheduled' = scheduled ]_vars

\* the second request waited in the queue and was scheduled when the
\* ProofCalculated of the first was handled
C29_Witness ==
    /\ multiproof_manager.max_concurrent = 1
    /\ Len(scheduled) = 2
    /\ proofs_processed = 1
    /\ multiproof_manager.inflight = 1

\* the place of an event in the order of update_sparse_trie
UstRank(event) ==
    CASE event.ev = "reveal" -> 0
      [] event.ev \in {"take", "storage"} -> 1
      [] event.ev = "attach" -> 2
      [] event.ev = "account" -> 3
      [] event.ev = "hash" -> 4

\* C30: in one call of update_sparse_trie the multiproof is revealed first;
\* every storage trie is re-attached after all storage tasks completed;
\* account updates come after that; the hashing below level 2 comes last.
C30_StepsInOrder ==
    /\ ust.log # <<>> => ust.log[1].ev = "reveal"
    /\ \A i, j \in 1..Len(ust.log) :
          i < j => UstRank(ust.log[i]) <= UstRank(ust.log[j])
    /\ \A i \in 1..Len(ust.log) :
          ust.log[i].ev \in {"attach", "account", "hash"} =>
              (ust.running = {} /\ ust.storages = {})
    /\ \A i \in 1..Len(ust.log) :
          ust.log[i].ev = "hash" => (i = Len(ust.log) /\ ust.log[i].level = 2)

\* a batch that wrote the storage of two accounts and an account went
\* through all the steps
C30_Witness ==
    /\ ust.pc = "done"
    /\ Cardinality({ i \in 1..Len(ust.log) : ust.log[i].ev = "attach" }) = 2
    /\ \E i \in 1..Len(ust.log) : ust.log[i].ev = "account"

\* a storage task of the batch that is followed has failed
StorageTaskFailed == ust.pc # "idle" /\ ust.failed_tasks # {}

\* C31: once a storage task of a batch failed, the batch performs no account
\* update and no hashing and does not succeed; RootCalculated is never
\* sent; when update_sparse_trie has returned, the sparse trie task has
\* stopped and RootCalculationError is in the channel until run handles it
\* and returns Err.
C31_FailedTaskFailsBatch ==
    StorageTaskFailed =>
        /\ \A i \in 1..Len(ust.log) : ust.log[i].ev \notin {"account", "hash"}
        /\ ust.pc \notin {"done", "returned_ok"}
        /\ "root_sent" \notin history
        /\ coord \in {"running", "err"}
        /\ \A i \in 1..Len(inbox) : inbox[i].type # "RootCalculated"
        /\ ust.pc = "returned_err" =>
              /\ updater = "done"
              /\ IF coord = "running"
                 THEN \E i \in 1..Len(inbox) :
                         inbox[i].type = "RootCalculationError"
                 ELSE coord = "err"
        /\ ust.pc # "returned_err" => (updater = "running" /\ coord = "running")

\* the task of an account without storage trie failed with Blind after the
\* task of another account succeeded, and run has returned Err
C31_Witness ==
    /\ ust.pc = "returned_err"
    /\ coord = "err"
    /\ \E i \in 1..Len(ust.log) : ust.log[i].ev = "attach"
    /\ \E r \in {ust.rx[i] : i \in 1..Len(ust.rx)} :
          ~r.ok /\ r.address \notin ust.multiproof

\* the concatenation of a sequence of sequences
RECURSIVE Concat(_)
Concat(ss) == IF ss = <<>> THEN <<>> ELSE Head(ss) \o Concat(Tail(ss))

\* the sequence numbers of the updates in the channel to the updater
QueuedSeqs == [i \in 1..Len(update_chan) |-> update_chan[i].seqs]

\* the ids of the deltas applied to the trie are in increasing order
AppliedInOrder ==
    \A i, j \in 1..Len(trie.applied) :
        i < j => trie.applied[i].id < trie.applied[j].id

\* C32: every turn of the updater takes one update and all the updates
\* then in the channel and merges them in the order sent; the updates
\* taken, batch after batch, followed by the queued ones are the updates run
\* sent, each once and in send order; iterations counts the batches; when
\* RootCalculated was sent iterations is at most the number of updates
\* sent, every update sent is in a batch, and iterations is 0 exactly when
\* no update was sent.
C32_UpdaterBatching ==
    /\ [](/\ Len(batches) = num_iterations
          /\ \A b \in 1..Len(batches) : batches[b] # <<>>
          /\ AppliedInOrder
          /\ "updater_failed" \notin history =>
                Concat(Concat(batches) \o QueuedSeqs) = sent_seqs
          /\ "root_sent" \in history =>
                /\ update_chan = <<>>
                /\ num_iterations <= Len(Concat(batches))
                /\ num_iterations = 0 <=> sent_seqs = <<>>
          /\ coord = "ok" => outcome[1].iterations = num_iterations)
    /\ [][UpdaterBatch =>
            /\ update_chan' = <<>>
            /\ num_iterations' = num_iterations + 1
            /\ batches' = Append(batches, QueuedSeqs)
            /\ "updater_failed" \notin history' =>
                  trie'.applied =
                      trie.applied \o Concat([i \in 1..Len(update_chan) |->
                                                 update_chan[i].state])]_vars

\* the run succeeded after a turn of the updater that merged two updates
C32_Witness ==
    /\ coord = "ok"
    /\ \E b \in 1..Len(batches) : Len(batches[b]) = 2

\* RootCalculated was sent with iterations = 0
C32_WitnessNoUpdate == "root_sent" \in history /\ num_iterations = 0

\* the two final messages of the sparse trie task, as recorded
FinalSent == history \cap {"root_sent", "updater_failed"}

\* C33: RootCalculated is sent only when every sender of the updates is
\* gone and every update sent has been processed; the sparse trie task
\* sends a final message only when it has sent none before, so at most one
\* RootCalculated and never both kinds; a task that has ended has sent
\* exactly one.
C33_RootCalculatedOnce ==
    /\ []("root_sent" \in history =>
            /\ UpdateTxDropped
            /\ update_chan = <<>>
            /\ Concat(Concat(batches)) = sent_seqs)
    /\ [](Cardinality(FinalSent) <= 1)
    /\ [](Cardinality({ i \in 1..Len(inbox) :
              inbox[i].type \in {"RootCalculated", "RootCalculationError"} })
            <= 1)
    /\ [](updater # "running" <=> Cardinality(FinalSent) = 1)
    /\ [][FinalSent' # FinalSent => FinalSent = {}]_vars

\* RootCalculated is queued for run after the updater processed a batch and
\* run closed sparse_trie_tx
C33_Witness ==
    /\ "root_sent" \in history
    /\ ~sparse_trie_tx
    /\ coord = "running"
    /\ num_iterations >= 1
    /\ \E i \in 1..Len(inbox) : inbox[i].type = "RootCalculated"

\* check_end_condition with == in place of >=
EndConditionWithEquality(proofs, updates, prefetches, finished, ps) ==
    (proofs = updates + prefetches) /\ ~has_pending(ps) /\ finished

\* C34: no more proofs are processed than requests were received, so
\* check_end_condition gives the same answer with == as with >=, on the
\* values of every state and with either value of updates_finished.
C34_CompletionsBounded ==
    /\ proofs_processed <= updates_received + prefetch_proofs_received
    /\ \A finished \in BOOLEAN :
          check_end_condition(proofs_processed, updates_received,
                              prefetch_proofs_received, finished,
                              proof_sequencer)
          <=> EndConditionWithEquality(proofs_processed, updates_received,
                              prefetch_proofs_received, finished,
                              proof_sequencer)

\* both requests of a run were completed, one by EmptyProof and one by a
\* worker, and the comparison holds with equality
C34_Witness ==
    /\ proofs_processed = 2
    /\ updates_received + prefetch_proofs_received = 2
    /\ Len(scheduled) = 1
    /\ check_end_condition(proofs_processed, updates_received,
                           prefetch_proofs_received, TRUE, proof_sequencer)

\* the requests that came from a PrefetchProofs message: no state payload
PrefetchInputs ==
    { dispatched[i] : i \in { k \in 1..Len(dispatched) :
          dispatched[k].hashed_state_update = EmptyHashedState } }

\* the sequence numbers whose proof is still computed, queued or unhandled
InFlightSeqs ==
    { w.proof_sequence_number : w \in workers }
    \cup { multiproof_manager.pending[i].proof_sequence_number :
              i \in 1..Len(multiproof_manager.pending) }
    \cup { inbox[i].sequence_number :
              i \in { k \in 1..Len(inbox) :
                        inbox[k].type \in {"EmptyProof", "ProofCalculated"} } }

\* C35: handling PrefetchProofs(targets) hands the manager one request with
\* targets minus fetched_proof_targets, no state and the next sequence
\* number, merges those targets into fetched_proof_targets and counts the
\* message; no delta applied to the trie carries a prefetch's sequence
\* number; nothing after a prefetch is sent to the updater while the
\* prefetch's proof is outstanding; sparse_trie_tx is closed only when the
\* proofs processed cover the prefetches too.
C35_PrefetchHandling ==
    /\ [][CoordPrefetchProofs =>
            LET targets == Head(inbox).proof
                remainder == targets \ fetched_proof_targets
            IN  /\ dispatched' = Append(dispatched,
                      MultiProofInput(EmptyHashedState, remainder,
                                      proof_sequencer.next_sequence))
                /\ fetched_proof_targets' = fetched_proof_targets \cup remainder
                /\ proof_sequencer'.next_sequence =
                      proof_sequencer.next_sequence + 1
                /\ prefetch_proofs_received' = prefetch_proofs_received + 1
                /\ received_deltas' = received_deltas
                /\ trie' = trie
                /\ update_chan' = update_chan]_vars
    /\ [](\A d \in PrefetchInputs :
            /\ \A i \in 1..Len(trie.applied) :
                  trie.applied[i].id # d.proof_sequence_number
            /\ d.proof_sequence_number \in InFlightSeqs =>
                  \A i \in 1..Len(sent_seqs) :
                      sent_seqs[i] < d.proof_sequence_number)
    /\ [][(sparse_trie_tx /\ ~sparse_trie_tx') =>
            proofs_processed' >=
                updates_received' + prefetch_proofs_received']_vars

\* a run with a prefetch of A handled before a state update ended with Ok
C35_Witness ==
    /\ coord = "ok"
    /\ prefetch_proofs_received = 1
    /\ updates_received = 1
    /\ Len(dispatched) = 2
    /\ dispatched[1] = MultiProofInput(EmptyHashedState, {"A"}, 0)
    /\ trie.revealed = {"A", "B"}

\* a prefetch whose targets were all fetched before was handed on without
\* targets
C35_WitnessFetched ==
    \E d \in PrefetchInputs :
        d.proof_targets = {} /\ d.proof_sequence_number = 1

\* C36: run never finds its channel closed: while it runs, the channel is
\* never empty with every Sender gone, the task's own among them; and
\* whenever run waits on an empty channel the sparse trie task, which holds
\* a Sender too, has not ended.
C36_ChannelNeverClosed ==
    /\ ~RecvDisconnected
    /\ (RxAlive /\ inbox = <<>>) => updater = "running"

\* run waits on an empty channel after the hook was dropped, with no
\* request computed or queued: the task and the sparse trie task hold the
\* only Senders left
C36_Witness ==
    /\ RxAlive
    /\ inbox = <<>>
    /\ Senders = {"task", "sparse_trie"}
    /\ proofs_processed >= 1

\* C37: while an input waits in the pending queue every slot is taken
\* (inflight = max_concurrent); the inputs were started on the pool in
\* increasing order of sequence number, and every queued input is younger
\* than every input started.
C37_NoIdleSlotWhileQueued ==
    LET mgr == multiproof_manager
        started == SeqNumbers(scheduled)
    IN  /\ mgr.pending # <<>> => mgr.inflight = mgr.max_concurrent
        /\ \A i, j \in 1..Len(started) : i < j => started[i] < started[j]
        /\ \A i \in 1..Len(mgr.pending), j \in 1..Len(started) :
              started[j] < mgr.pending[i].proof_sequence_number

\* with two slots, a third input was started from the queue when a result
\* was handled, and a fourth still waits
C37_Witness ==
    /\ multiproof_manager.max_concurrent = 2
    /\ multiproof_manager.inflight = 2
    /\ Len(multiproof_manager.pending) = 1
    /\ Len(scheduled) = 3

\* C38: the sequencer has handed out as many sequence numbers as requests
\* were received; it has not delivered past them; and the proofs processed
\* are the delivered ones plus the buffered ones.
C38_Bookkeeping ==
    LET ps == proof_sequencer
    IN  /\ ps.next_sequence = updates_received + prefetch_proofs_received
        /\ ps.next_to_deliver <= ps.next_sequence
        /\ ps.next_to_deliver + Cardinality(DOMAIN ps.pending_proofs)
              = proofs_processed

\* the proof of the second request was processed first and is buffered
C38_Witness ==
    /\ proof_sequencer.next_sequence = 2
    /\ proof_sequencer.next_to_deliver = 0
    /\ DOMAIN proof_sequencer.pending_proofs = {1}
    /\ proofs_processed = 1

\* check_end_condition without the !has_pending() conjunct
EndConditionWithoutPending(proofs, updates, prefetches, finished, ps) ==
    (proofs >= updates + prefetches) /\ finished

\* C39: when the proofs processed cover the requests received the
\* sequencer buffers nothing, so check_end_condition gives the same answer
\* without its !has_pending() conjunct.
C39_AllProcessedNothingPending ==
    /\ proofs_processed >= updates_received + prefetch_proofs_received
          => ~has_pending(proof_sequencer)
    /\ \A finished \in BOOLEAN :
          check_end_condition(proofs_processed, updates_received,
                              prefetch_proofs_received, finished,
                              proof_sequencer)
          <=> EndConditionWithoutPending(proofs_processed, updates_received,
                              prefetch_proofs_received, finished,
                              proof_sequencer)

\* two requests were received and both proofs processed and delivered
\* while the state updates are not finished
C39_Witness ==
    /\ proofs_processed = 2
    /\ proof_sequencer.next_sequence = 2
    /\ proof_sequencer.next_to_deliver = 2
    /\ ~updates_finished
    /\ Len(scheduled) = 2

\* C40: when run has returned Ok the manager has no request in flight and
\* none queued.
C40_QuiescentOnOk ==
    coord = "ok" =>
        /\ multiproof_manager.inflight = 0
        /\ multiproof_manager.pending = <<>>

\* on_calculation_complete is called with a request in flight: the
\* saturating decrement of inflight never saturates
C40_DecrementNeverSaturates ==
    [][CoordProofCalculated => multiproof_manager.inflight >= 1]_vars

====
